---- MODULE Spec2Model ----
(***************************************************************************)
(* A model of the GSMArena scraper of SmartPick                            *)
(* (src/src/scrapers/gsmarena.py): the request pacing and retry loop of    *)
(* _make_request, called by one caller and by concurrent coroutines, the   *)
(* result-list loop of search_devices, the two detail-page parsers and the *)
(* alias-based field extraction.                                           *)
(*                                                                         *)
(* Text that the code only compares for equality (categories, values,      *)
(* hrefs) is a TLA+ string.  Text that the code strips, lower-cases and    *)
(* searches is a sequence of one-character strings (field labels of        *)
(* _extract_spec, queries, price texts); text that it splits is a sequence *)
(* of whitespace-free tokens (device names).                               *)
(***************************************************************************)
EXTENDS Integers, Sequences, FiniteSets, TLC

VARIABLES
    \* ---- field extraction (SpecNorm) ----
    npc,        \* "input" | "done"
    page,       \* the rows of a detail page, as the table selectors see them
    result,     \* the dict the extraction returns
    \* ---- search_devices / get_device_details (Spec) ----
    pc,         \* position of the single caller
    query,      \* argument of the running search_devices call
    devId,      \* argument of the running get_device_details call
    i,          \* entries of the results page consumed by the loop so far
    cur,        \* the stub whose detail fetch is in flight
    results,    \* the local list `results` of search_devices
    sent,       \* outbound requests issued by the running call
    fetches,    \* detail fetches started by the running search_devices call
    inflight,   \* detail fetches started and not yet completed or failed
    logged,     \* the logger.error messages of the running call
    returned,   \* value returned by the call that finished last
    \* ---- request pacing (SpecGate) ----
    gpc,                \* position of the caller inside _make_request / get_device_details
    now,                \* time.time(), in seconds
    last_request_time,  \* self.last_request_time
    prev_request_time,  \* the issuance time recorded before the latest one
    issues,             \* issuance times recorded so far
    wait_time,          \* the duration of the asyncio.sleep under way
    retry_count,        \* retry_count of the running _make_request
    ended,              \* how the last _make_request ended
    calls,              \* calls started so far
    gid,                \* device_id of the running get_device_details
    getSends,           \* per device_id, the requests get_device_details has sent
    getLog,             \* the get_device_details calls that have returned
    attempts,           \* HTTP attempts sent by the running _make_request
    backoffs,           \* the backoff waits of the running _make_request, in order
    last_send,          \* when the latest outbound request was sent (-1: none yet)
    \* ---- concurrent _make_request calls (SpecRace) ----
    tpc,                \* per task, its position inside _make_request
    wake,               \* per task, when its sleep ends or its attempt times out
    tretry,             \* per task, retry_count of its _make_request
    issued              \* the issuance times recorded so far, in order

normVars == <<npc, page, result>>
searchVars == <<pc, query, devId, i, cur, results, sent, fetches, inflight, logged,
               returned>>
raceVars == <<tpc, wake, tretry, issued>>
gateVars == <<gpc, now, last_request_time, prev_request_time, issues, wait_time,
              retry_count, ended, calls, gid, getSends, getLog, attempts, backoffs,
              last_send, raceVars>>
vars == <<npc, page, result,
          pc, query, devId, i, cur, results, sent, fetches, inflight, logged, returned,
          gpc, now, last_request_time, prev_request_time, issues, wait_time,
          retry_count, ended, calls, gid, getSends, getLog, attempts, backoffs,
          last_send, tpc, wake, tretry, issued>>

(***************************************************************************)
(* Python values                                                           *)
(***************************************************************************)
\* Python's None, where the code returns or stores it in place of a string.
None == "<None>"

\* The sentinel of the fallback chains (gsmarena.py 271 ... 337).
NA == "N/A"

\* str.lower() on one character.
LowerOf ==
    "A" :> "a" @@ "B" :> "b" @@ "C" :> "c" @@ "D" :> "d" @@ "E" :> "e" @@ "F" :> "f"
    @@ "G" :> "g" @@ "H" :> "h" @@ "I" :> "i" @@ "J" :> "j" @@ "K" :> "k" @@ "L" :> "l"
    @@ "M" :> "m" @@ "N" :> "n" @@ "O" :> "o" @@ "P" :> "p" @@ "Q" :> "q" @@ "R" :> "r"
    @@ "S" :> "s" @@ "T" :> "t" @@ "U" :> "u" @@ "V" :> "v" @@ "W" :> "w" @@ "X" :> "x"
    @@ "Y" :> "y" @@ "Z" :> "z"

LowerChar(c) == IF c \in DOMAIN LowerOf THEN LowerOf[c] ELSE c

\* str.lower()
Lower(s) == [k \in 1..Len(s) |-> LowerChar(s[k])]

\* Python's `a in b` on strings: a occurs in b as a contiguous substring.
Contains(b, a) ==
    \E k \in 1..(Len(b) - Len(a) + 1) : SubSeq(b, k, k + Len(a) - 1) = a

\* str.strip() on a sequence of characters (only the blank is whitespace here).
RECURSIVE LStrip(_)
LStrip(s) == IF s # <<>> /\ Head(s) = " " THEN LStrip(Tail(s)) ELSE s

RECURSIVE RStrip(_)
RStrip(s) ==
    IF s # <<>> /\ s[Len(s)] = " " THEN RStrip(SubSeq(s, 1, Len(s) - 1)) ELSE s

Strip(s) == RStrip(LStrip(s))

\* Python's `x or y` on Optional[str]: x unless it is None or empty.
PyOr(x, y) == IF x = None \/ x = "" THEN y ELSE x

(***************************************************************************)
(* The raw spec map: category -> ordered dict of label -> value.  A dict   *)
(* keeps insertion order and an overwrite keeps the key's position, so a   *)
(* category's dict is a sequence of <<label, value>> with distinct labels. *)
(***************************************************************************)
Labels(d) == {d[k][1] : k \in 1..Len(d)}

DictGet(d, label) == (CHOOSE k \in 1..Len(d) : d[k][1] = label)

\* d[label] = value
DictPut(d, label, value) ==
    IF label \in Labels(d)
    THEN [d EXCEPT ![DictGet(d, label)] = <<label, value>>]
    ELSE Append(d, <<label, value>>)

\* The value of the first item of d, in dict order, among the positions
\* hits; None when there is none.
FirstValue(d, hits) ==
    IF hits = {} THEN None
    ELSE d[CHOOSE k \in hits : \A j \in hits : k <= j][2]

(***************************************************************************)
(* _get_device_details, the parse (gsmarena.py 207-263).  A detail page is *)
(* the sequence of table rows that the table selectors reach, in the order *)
(* the loops visit them.  A row is [th, cells]: th is the stripped text of  *)
(* its header cell (None: no header cell); a cell is                       *)
(* [found, label, value]: found says that the selector cascades returned   *)
(* both a label element and a value element, label is the label element's  *)
(* text, value the value element's text after strip().                     *)
(***************************************************************************)
ParseCell(d, cell) ==
    IF cell.found /\ Strip(cell.label) # <<>> /\ cell.value # ""
    THEN DictPut(d, Strip(cell.label), cell.value)
    ELSE d

RECURSIVE ParseCells(_, _)
ParseCells(d, cells) ==
    IF cells = <<>> THEN d
    ELSE ParseCells(ParseCell(d, Head(cells)), Tail(cells))

ParseRow(specs, row) ==
    IF row.th = None THEN specs
    ELSE LET old == IF row.th \in DOMAIN specs THEN specs[row.th] ELSE <<>>
         IN  (row.th :> ParseCells(old, row.cells)) @@ specs

RECURSIVE ParseRows(_, _)
ParseRows(specs, rows) ==
    IF rows = <<>> THEN specs
    ELSE ParseRows(ParseRow(specs, Head(rows)), Tail(rows))

\* specs = {} ... (gsmarena.py 207, 222-263)
EmptySpecs == [c \in {} |-> <<>>]

ParseSpecs(rows) == ParseRows(EmptySpecs, rows)

(***************************************************************************)
(* _extract_spec (gsmarena.py 348-375)                                     *)
(***************************************************************************)
\* _extract_spec without its case-insensitive and partial passes.
_extract_spec_ExactOnly(specs, category, field) ==
    IF category \in DOMAIN specs /\ field \in Labels(specs[category])
    THEN specs[category][DictGet(specs[category], field)][2]
    ELSE None

\* _extract_spec with the partial pass run before the case-insensitive one.
_extract_spec_PartialFirst(specs, category, field) ==
    IF category \in DOMAIN specs
    THEN LET d == specs[category]
         IN  IF field \in Labels(d)
             THEN d[DictGet(d, field)][2]
             ELSE FirstValue(d, {k \in 1..Len(d) :
                                    Contains(Lower(d[k][1]), Lower(field))})
    ELSE None

_extract_spec(specs, category, field) ==
    IF category \in DOMAIN specs
    THEN LET d == specs[category]
         IN  IF field \in Labels(d)
             THEN d[DictGet(d, field)][2]
             ELSE IF \E k \in 1..Len(d) : Lower(d[k][1]) = Lower(field)
             THEN FirstValue(d, {k \in 1..Len(d) : Lower(d[k][1]) = Lower(field)})
             ELSE FirstValue(d, {k \in 1..Len(d) :
                                    Contains(Lower(d[k][1]), Lower(field))})
    ELSE None

(***************************************************************************)
(* The fallback chains of _get_device_details (gsmarena.py 266-339): for   *)
(* each canonical key, three (category, field) aliases tried in order.     *)
(***************************************************************************)
AliasList ==
    "display" :> <<
        <<"Display", <<"S", "i", "z", "e">>>>,
        <<"Display", <<"S", "c", "r", "e", "e", "n", " ", "s", "i", "z", "e">>>>,
        <<"Display", <<"P", "h", "y", "s", "i", "c", "a", "l", " ", "s", "i", "z", "e">>>> >>
    @@ "resolution" :> <<
        <<"Display", <<"R", "e", "s", "o", "l", "u", "t", "i", "o", "n">>>>,
        <<"Display", <<"S", "c", "r", "e", "e", "n", " ", "r", "e", "s", "o", "l", "u", "t", "i", "o", "n">>>>,
        <<"Display", <<"P", "i", "x", "e", "l", " ", "d", "e", "n", "s", "i", "t", "y">>>> >>
    @@ "display_type" :> <<
        <<"Display", <<"T", "y", "p", "e">>>>,
        <<"Display", <<"D", "i", "s", "p", "l", "a", "y", " ", "t", "y", "p", "e">>>>,
        <<"Display", <<"T", "e", "c", "h", "n", "o", "l", "o", "g", "y">>>> >>
    @@ "cpu" :> <<
        <<"Hardware", <<"C", "P", "U">>>>,
        <<"Hardware", <<"P", "r", "o", "c", "e", "s", "s", "o", "r">>>>,
        <<"Hardware", <<"C", "h", "i", "p", "s", "e", "t">>>> >>
    @@ "ram" :> <<
        <<"Hardware", <<"R", "A", "M">>>>,
        <<"Memory", <<"R", "A", "M">>>>,
        <<"Hardware", <<"M", "e", "m", "o", "r", "y">>>> >>
    @@ "storage" :> <<
        <<"Hardware", <<"S", "t", "o", "r", "a", "g", "e">>>>,
        <<"Memory", <<"S", "t", "o", "r", "a", "g", "e">>>>,
        <<"Hardware", <<"C", "a", "r", "d", " ", "s", "l", "o", "t">>>> >>
    @@ "gpu" :> <<
        <<"Hardware", <<"G", "P", "U">>>>,
        <<"Hardware", <<"G", "r", "a", "p", "h", "i", "c", "s">>>>,
        <<"Hardware", <<"G", "r", "a", "p", "h", "i", "c", "s", " ", "p", "r", "o", "c", "e", "s", "s", "o", "r">>>> >>
    @@ "camera" :> <<
        <<"Camera", <<"M", "a", "i", "n", " ", "c", "a", "m", "e", "r", "a">>>>,
        <<"Camera", <<"P", "r", "i", "m", "a", "r", "y", " ", "c", "a", "m", "e", "r", "a">>>>,
        <<"Camera", <<"C", "a", "m", "e", "r", "a">>>> >>
    @@ "front_camera" :> <<
        <<"Camera", <<"S", "e", "l", "f", "i", "e", " ", "c", "a", "m", "e", "r", "a">>>>,
        <<"Camera", <<"F", "r", "o", "n", "t", " ", "c", "a", "m", "e", "r", "a">>>>,
        <<"Camera", <<"S", "e", "l", "f", "i", "e">>>> >>
    @@ "video" :> <<
        <<"Camera", <<"V", "i", "d", "e", "o">>>>,
        <<"Camera", <<"V", "i", "d", "e", "o", " ", "r", "e", "c", "o", "r", "d", "i", "n", "g">>>>,
        <<"Camera", <<"V", "i", "d", "e", "o", " ", "c", "a", "p", "t", "u", "r", "e">>>> >>
    @@ "battery" :> <<
        <<"Battery", <<"C", "a", "p", "a", "c", "i", "t", "y">>>>,
        <<"Battery", <<"B", "a", "t", "t", "e", "r", "y", " ", "c", "a", "p", "a", "c", "i", "t", "y">>>>,
        <<"Battery", <<"B", "a", "t", "t", "e", "r", "y">>>> >>
    @@ "charging" :> <<
        <<"Battery", <<"C", "h", "a", "r", "g", "i", "n", "g">>>>,
        <<"Battery", <<"F", "a", "s", "t", " ", "c", "h", "a", "r", "g", "i", "n", "g">>>>,
        <<"Battery", <<"C", "h", "a", "r", "g", "e", "r">>>> >>

CanonicalKeys == DOMAIN AliasList

\* The chain without its closing "N/A".
RECURSIVE ChainFrom_NoDefault(_, _, _)
ChainFrom_NoDefault(specs, aliases, k) ==
    IF k > Len(aliases) THEN None
    ELSE PyOr(_extract_spec(specs, aliases[k][1], aliases[k][2]),
              ChainFrom_NoDefault(specs, aliases, k + 1))

\* _extract_spec(a1) or _extract_spec(a2) or _extract_spec(a3) or "N/A"
RECURSIVE ChainFrom(_, _, _)
ChainFrom(specs, aliases, k) ==
    IF k > Len(aliases) THEN NA
    ELSE PyOr(_extract_spec(specs, aliases[k][1], aliases[k][2]),
              ChainFrom(specs, aliases, k + 1))

ExtractField(specs, key) == ChainFrom(specs, AliasList[key], 1)

\* result = { "display": ..., ..., "charging": ... } (gsmarena.py 266-339)
ExtractKeySpecs(specs) == [key \in CanonicalKeys |-> ExtractField(specs, key)]

(***************************************************************************)
(* get_device_details, the parse (gsmarena.py 438-488, 409-419).           *)
(* For _parse_specifications a page is a sequence of sections, one per     *)
(* table under #specs-list: [hasHead, head, rows], head the text of the    *)
(* preceding tr.head when there is one; a row is [found, ttl, nfo]: found  *)
(* says that both td.ttl and td.nfo exist, ttl is the label text and nfo   *)
(* the value text, all after strip().  The code lower-cases categories     *)
(* and labels.                                                             *)
(***************************************************************************)
\* str.lower() on the category and label texts of the pages below; every
\* other text of theirs is lower-case already.
LowerText(t) ==
    CASE t = "Launch"    -> "launch"
      [] t = "Announced" -> "announced"
      [] t = "Battery"   -> "battery"
      [] OTHER           -> t

RECURSIVE ParseSectionRows(_, _)
ParseSectionRows(d, rows) ==
    IF rows = <<>> THEN d
    ELSE LET r == Head(rows)
         IN  ParseSectionRows(
                 IF r.found THEN DictPut(d, LowerText(r.ttl), r.nfo) ELSE d,
                 Tail(rows))

RECURSIVE ParseSections(_, _)
ParseSections(specs, sections) ==
    IF sections = <<>> THEN specs
    ELSE LET s == Head(sections)
             d == ParseSectionRows(<<>>, s.rows)
         IN  ParseSections(
                 IF s.hasHead /\ d # <<>>
                 THEN (LowerText(s.head) :> d) @@ specs
                 ELSE specs,
                 Tail(sections))

_parse_specifications(sections) == ParseSections(EmptySpecs, sections)

\* datetime.strptime against "%Y, %B %d", "%Y, %B", "%B %Y", "%Y" in this
\* order, then isoformat(); the texts are the ones the pages below carry.
Strptime(text) ==
    CASE text = "2023, September 12" -> "2023-09-12T00:00:00"
      [] text = "2023, September"    -> "2023-09-01T00:00:00"
      [] text = "September 2023"     -> "2023-09-01T00:00:00"
      [] text = "2023"               -> "2023-01-01T00:00:00"
      [] OTHER                       -> None

_extract_release_date(specs) ==
    IF "launch" \in DOMAIN specs /\ "announced" \in Labels(specs["launch"])
    THEN LET date_str == specs["launch"][DictGet(specs["launch"], "announced")][2]
         IN  IF date_str # "" THEN Strptime(date_str) ELSE None
    ELSE None

\* re.search(r'[\d,.]+', price_text): the leftmost maximal run of digits,
\* commas and dots; <<>> when there is no match.
NumChars == {"0", "1", "2", "3", "4", "5", "6", "7", "8", "9", ",", "."}

RECURSIVE TakeRun(_)
TakeRun(s) ==
    IF s # <<>> /\ Head(s) \in NumChars THEN <<Head(s)>> \o TakeRun(Tail(s)) ELSE <<>>

RECURSIVE FirstRun(_)
FirstRun(s) ==
    IF s = <<>> THEN <<>>
    ELSE IF Head(s) \in NumChars THEN TakeRun(s) ELSE FirstRun(Tail(s))

\* str.replace(',', '')
RECURSIVE RemoveCommas(_)
RemoveCommas(s) ==
    IF s = <<>> THEN <<>>
    ELSE (IF Head(s) = "," THEN <<>> ELSE <<Head(s)>>) \o RemoveCommas(Tail(s))

\* float() accepts a run of digits and dots when it has a digit and at most
\* one dot; the amount is kept as its decimal text.
IsFloat(t) ==
    /\ \E k \in 1..Len(t) : t[k] # "."
    /\ Cardinality({k \in 1..Len(t) : t[k] = "."}) <= 1

\* price (gsmarena.py 409-419); hasPrice: the page has a .price element
ParsePrice(hasPrice, price_text) ==
    LET m == FirstRun(price_text)
    IN  IF hasPrice /\ m # <<>> /\ IsFloat(RemoveCommas(m))
        THEN RemoveCommas(m)
        ELSE <<>>

(***************************************************************************)
(* URLs                                                                    *)
(***************************************************************************)
BASE_URL == "https://www.gsmarena.com"
SEARCH_URL == BASE_URL \o "/results.php3"

HrefA == "apple_iphone_15-12559.php"
HrefAAbs == "https://www.gsmarena.com/apple_iphone_15-12559.php"
HrefB == "google_pixel_8-12546.php"

\* href.startswith('http'), on the hrefs of the entries below
StartsWithHttp(href) == href = HrefAAbs

\* url = f"{BASE_URL}/{href}" if not href.startswith('http') else href
ResolveUrl(href) == IF StartsWithHttp(href) THEN href ELSE BASE_URL \o "/" \o href

\* url = f"{BASE_URL}/{device_id}.php"
DetailUrl(device_id) == BASE_URL \o "/" \o device_id \o ".php"

(***************************************************************************)
(* Inputs: what the site may answer.                                       *)
(***************************************************************************)
S_RAM == <<"R", "A", "M">>
S_ram == <<"r", "a", "m">>
S_RAM_type == <<"R", "A", "M", " ", "t", "y", "p", "e">>
S_Capacity == <<" ", "C", "a", "p", "a", "c", "i", "t", "y">>
S_Size == <<"S", "i", "z", "e">>
S_Price1299 == <<"$", "1", ",", "2", "9", "9", ".", "0", "0">>

Cell(label, value) == [found |-> TRUE, label |-> label, value |-> value]
Row(th, cells) == [th |-> th, cells |-> cells]

\* A page with Display, Memory, Hardware and Battery rows.
PageFull ==
    [ rows     |-> << Row("Display", <<Cell(S_Size, "6.1 inches")>>),
                      Row("Memory", <<Cell(S_RAM, "8 GB")>>),
                      Row("Hardware", <<Cell(S_RAM_type, "LPDDR5")>>),
                      Row("Battery", <<Cell(S_Capacity, "3349 mAh")>>) >>,
      sections |-> << [hasHead |-> TRUE, head |-> "Launch",
                       rows |-> <<[found |-> TRUE, ttl |-> "Announced",
                                   nfo |-> "2023, September 12"]>>] >>,
      hasTitle |-> TRUE,
      title    |-> <<"Apple", "iPhone", "15">>,
      image    |-> "iphone15.jpg",
      hasPrice |-> TRUE,
      price    |-> S_Price1299 ]

\* A page without any Battery row, title or price.
PageNoBattery ==
    [ rows     |-> << Row("Display", <<Cell(S_Size, "6.2 inches")>>),
                      Row(None, <<Cell(S_Capacity, "4575 mAh")>>),
                      Row("Memory", <<Cell(S_ram, "")>>) >>,
      sections |-> << [hasHead |-> FALSE, head |-> "",
                       rows |-> <<[found |-> TRUE, ttl |-> "Announced",
                                   nfo |-> "2023"]>>] >>,
      hasTitle |-> FALSE,
      title    |-> <<>>,
      image    |-> None,
      hasPrice |-> FALSE,
      price    |-> <<>> ]

\* A page on which no table selector matches; its title is one word.
PageBare ==
    [ rows     |-> <<>>,
      sections |-> <<>>,
      hasTitle |-> TRUE,
      title    |-> <<"Pixel">>,
      image    |-> None,
      hasPrice |-> TRUE,
      price    |-> <<"n", ".", "a">> ]

DetailPages == {PageFull, PageNoBattery, PageBare}

\* An entry of the results list (one element of `phones`): link says that it
\* has an <a>, href is the link target (None: no href attribute), name the
\* whitespace-separated words of the link text.
Entry(link, href, name) == [link |-> link, href |-> href, name |-> name]

EntryPool ==
    { Entry(FALSE, None, <<>>),
      Entry(TRUE, None, <<"Apple", "iPhone", "15">>),
      Entry(TRUE, "", <<"Apple", "iPhone", "15">>),
      Entry(TRUE, HrefB, <<>>),
      Entry(TRUE, HrefA, <<"Apple", "iPhone", "15">>),
      Entry(TRUE, HrefAAbs, <<"Apple", "iPhone", "15">>),
      Entry(TRUE, HrefB, <<"Pixel">>) }

\* Queries: empty, blank, and two that strip to a term.
Queries == {<<>>, <<" ">>, <<"i">>, <<" ", "i", " ">>}

DeviceIds == {"apple_iphone_15-12559", "google_pixel_8-12546"}

\* The number of entries a results page may hold.
MaxEntries == 6

\* The rows a drawn detail page may hold (SpecNorm).
MaxRows == 2

(***************************************************************************)
(* search_devices and get_device_details (gsmarena.py 110-198, 200-346,    *)
(* 377-436), called one at a time by a single caller.  The awaits are the  *)
(* steps: the results-page request, each detail fetch, the detail request  *)
(* of get_device_details.  The results page is revealed entry by entry as  *)
(* the loop consumes it.                                                   *)
(***************************************************************************)
EmptyDict == <<>>

NoReturn == [op |-> "none", list |-> <<>>, dict |-> EmptyDict]
ReturnList(l) == [op |-> "search_devices", list |-> l, dict |-> EmptyDict]
ReturnDict(d) == [op |-> "get_device_details", list |-> <<>>, dict |-> d]

NoStub == [name |-> <<>>, brand |-> "", url |-> ""]

\* What a detail request may bring: an exception, or a page.
FetchOutcomes ==
    {[ok |-> FALSE, page |-> PageBare]} \cup {[ok |-> TRUE, page |-> p] : p \in DetailPages}

\* if not query or not query.strip()  (gsmarena.py 114)
IsBlankQuery(q) == q = <<>> \/ Strip(q) = <<>>

\* search_params (gsmarena.py 123-126)
SearchRequest(q) == [url |-> SEARCH_URL, sName |-> Strip(q)]
DetailRequest(url) == [url |-> url, sName |-> <<>>]

\* the checks of one entry before its detail fetch (gsmarena.py 152-163)
EntryUsable(e) == e.link /\ e.href # None /\ e.href # "" /\ e.name # <<>>

\* name, brand, url of one entry (gsmarena.py 161-169)
StubOf(e) == [name |-> e.name, brand |-> e.name[1], url |-> ResolveUrl(e.href)]

\* The parse and the fallback chains on each page a detail request may
\* bring, evaluated once per page.
KeySpecsOf == [p \in DetailPages |-> ExtractKeySpecs(ParseSpecs(p.rows))]

\* _get_device_details without its except clause's {}: whatever page came
\* with the failure is parsed.
_get_device_details_IgnoresFailure(outcome) == KeySpecsOf[outcome.page]

\* _get_device_details (gsmarena.py 200-346): {} on an exception
_get_device_details(outcome) ==
    IF outcome.ok THEN KeySpecsOf[outcome.page] ELSE EmptyDict

\* the dict appended to results (gsmarena.py 176-181)
SearchRecord(stub, details) ==
    [name |-> stub.name, brand |-> stub.brand, source_url |-> stub.url,
     specifications |-> details]

\* the limit of gsmarena.py 185
ResultLimit == 5

\* The limit test with > in place of >=.
ReachedLimit_OffByOne(rs) == Len(rs) > ResultLimit

\* if len(results) >= 5  (gsmarena.py 185)
ReachedLimit(rs) == Len(rs) >= ResultLimit

\* the dict built by get_device_details (gsmarena.py 391-433)
DeviceRecord(device_id, p) ==
    LET specs == _parse_specifications(p.sections)
        name  == IF p.hasTitle THEN p.title ELSE <<"Unknown", "Device">>
    IN  [id |-> device_id,
         name |-> name,
         brand |-> IF Len(name) > 1 THEN name[1] ELSE "Unknown",
         image_url |-> p.image,
         specifications |-> specs,
         release_date |-> _extract_release_date(specs),
         price |-> ParsePrice(p.hasPrice, p.price),
         source |-> "gsmarena",
         source_url |-> DetailUrl(device_id)]

\* get_device_details (gsmarena.py 377-436): {} on an exception
get_device_details(device_id, outcome) ==
    IF outcome.ok THEN DeviceRecord(device_id, outcome.page) ELSE EmptyDict

\* search_devices is called (gsmarena.py 110-129): a blank query returns []
\* at once, any other query sends the results-page request.
SearchStart(q) ==
    /\ pc = "idle"
    /\ query' = q
    /\ i' = 0
    /\ cur' = NoStub
    /\ results' = <<>>
    /\ fetches' = 0
    /\ inflight' = 0
    /\ logged' = {}
    /\ devId' = ""
    /\ IF IsBlankQuery(q)
       THEN /\ pc' = "idle"
            /\ sent' = {}
            /\ returned' = ReturnList(<<>>)
       ELSE /\ pc' = "search_request"
            /\ sent' = {SearchRequest(q)}
            /\ returned' = NoReturn
    /\ UNCHANGED <<normVars, gateVars>>

\* How the results-page request may fail: _make_request raises (a network
\* error, a timeout, a status that is not 2xx, 429 on every attempt), or the
\* response has a status other than 200.
SearchFailures == {"raised", "status"}

\* the logger.error of gsmarena.py 132 and 197
SearchErrorLogged(kind) ==
    IF kind = "raised" THEN "Error during search"
    ELSE "Search page returned status code"

\* The failed request with the exception passed on to the caller.
SearchFailure_Escapes(kind) ==
    IF kind = "raised" THEN [op |-> "raised", list |-> <<>>, dict |-> EmptyDict]
    ELSE ReturnList(<<>>)

\* what search_devices hands back after a failed results-page request
\* (gsmarena.py 131-133, 196-198)
SearchFailure(kind) == ReturnList(<<>>)

\* The results-page request raises, or answers with a status other than 200
\* (gsmarena.py 129-133, 196-198): the error is logged and [] is returned.
SearchFailed(kind) ==
    /\ pc = "search_request"
    /\ pc' = "idle"
    /\ logged' = logged \cup {SearchErrorLogged(kind)}
    /\ returned' = SearchFailure(kind)
    /\ UNCHANGED <<query, devId, i, cur, results, sent, fetches, inflight>>
    /\ UNCHANGED <<normVars, gateVars>>

\* The results page arrives (gsmarena.py 135-147); without a makers
\* container the empty list is returned (gsmarena.py 193-194).
SearchPage(hasContainer) ==
    /\ pc = "search_request"
    /\ IF hasContainer
       THEN pc' = "search_loop" /\ returned' = NoReturn
       ELSE pc' = "idle" /\ returned' = ReturnList(results)
    /\ UNCHANGED <<query, devId, i, cur, results, sent, fetches, inflight, logged>>
    /\ UNCHANGED <<normVars, gateVars>>

\* The pass of the loop that starts the detail fetch and does not await it.
LoopEntry_NoAwait(e) ==
    /\ pc = "search_loop"
    /\ i < MaxEntries
    /\ i' = i + 1
    /\ IF EntryUsable(e)
       THEN /\ cur' = StubOf(e)
            /\ sent' = sent \cup {DetailRequest(ResolveUrl(e.href))}
            /\ fetches' = fetches + 1
            /\ inflight' = inflight + 1
       ELSE UNCHANGED <<cur, sent, fetches, inflight>>
    /\ UNCHANGED <<pc, query, devId, results, logged, returned>>
    /\ UNCHANGED <<normVars, gateVars>>

\* One pass of the for loop up to the detail fetch (gsmarena.py 149-174).
LoopEntry(e) ==
    /\ pc = "search_loop"
    /\ i < MaxEntries
    /\ i' = i + 1
    /\ IF EntryUsable(e)
       THEN /\ cur' = StubOf(e)
            /\ pc' = "detail"
            /\ sent' = sent \cup {DetailRequest(ResolveUrl(e.href))}
            /\ fetches' = fetches + 1
            /\ inflight' = inflight + 1
       ELSE UNCHANGED <<cur, pc, sent, fetches, inflight>>
    /\ UNCHANGED <<query, devId, results, logged, returned>>
    /\ UNCHANGED <<normVars, gateVars>>

\* The detail fetch completes (gsmarena.py 174-191).
DetailDone(outcome) ==
    /\ pc = "detail"
    /\ LET details == _get_device_details(outcome)
           rs == IF DOMAIN details # {}
                 THEN Append(results, SearchRecord(cur, details))
                 ELSE results
       IN  /\ results' = rs
           /\ IF DOMAIN details # {} /\ ReachedLimit(rs)
              THEN pc' = "idle" /\ returned' = ReturnList(rs)
              ELSE pc' = "search_loop" /\ returned' = NoReturn
    /\ cur' = NoStub
    /\ inflight' = inflight - 1
    /\ logged' = IF outcome.ok THEN logged
                 ELSE logged \cup {"Error getting device details"}
    /\ UNCHANGED <<query, devId, i, sent, fetches>>
    /\ UNCHANGED <<normVars, gateVars>>

\* The loop has consumed the whole page (gsmarena.py 193-194).
LoopEnd ==
    /\ pc = "search_loop"
    /\ pc' = "idle"
    /\ returned' = ReturnList(results)
    /\ UNCHANGED <<query, devId, i, cur, results, sent, fetches, inflight, logged>>
    /\ UNCHANGED <<normVars, gateVars>>

\* get_device_details is called and sends its request (gsmarena.py 377-388).
GetStart(id) ==
    /\ pc = "idle"
    /\ pc' = "gdd_request"
    /\ devId' = id
    /\ query' = <<>>
    /\ i' = 0
    /\ cur' = NoStub
    /\ results' = <<>>
    /\ fetches' = 0
    /\ inflight' = 0
    /\ logged' = {}
    /\ sent' = {DetailRequest(DetailUrl(id))}
    /\ returned' = NoReturn
    /\ UNCHANGED <<normVars, gateVars>>

\* The request of get_device_details completes (gsmarena.py 388-436).
GetDone(outcome) ==
    /\ pc = "gdd_request"
    /\ pc' = "idle"
    /\ returned' = ReturnDict(get_device_details(devId, outcome))
    /\ logged' = IF outcome.ok THEN logged
                 ELSE logged \cup {"Failed to get GSMArena device details"}
    /\ UNCHANGED <<query, devId, i, cur, results, sent, fetches, inflight>>
    /\ UNCHANGED <<normVars, gateVars>>

\* the coroutines that may run _make_request on the one scraper at a time
Tasks == {1, 2}

SearchIdle ==
    /\ pc = "idle" /\ query = <<>> /\ devId = "" /\ i = 0 /\ cur = NoStub
    /\ results = <<>> /\ sent = {} /\ fetches = 0 /\ inflight = 0 /\ logged = {}
    /\ returned = NoReturn

NormIdle == npc = "off" /\ page = <<>> /\ result = EmptyDict

\* __init__ (gsmarena.py 40-41); no call is under way
GateIdle ==
    /\ gpc = "idle" /\ last_request_time = 0 /\ prev_request_time = 0 /\ issues = 0
    /\ wait_time = 0 /\ retry_count = 0 /\ ended = "none" /\ calls = 0
    /\ gid = "" /\ getSends = [d \in DeviceIds |-> 0] /\ getLog = <<>>
    /\ attempts = 0 /\ backoffs = <<>> /\ last_send = -1
    /\ tpc = [t \in Tasks |-> "idle"] /\ wake = [t \in Tasks |-> 0]
    /\ tretry = [t \in Tasks |-> 0] /\ issued = <<>>

Init == SearchIdle /\ NormIdle /\ GateIdle /\ now = 0

Next ==
    \/ \E q \in Queries : SearchStart(q)
    \/ \E kind \in SearchFailures : SearchFailed(kind)
    \/ \E c \in BOOLEAN : SearchPage(c)
    \/ \E e \in EntryPool : LoopEntry(e)
    \/ \E o \in FetchOutcomes : DetailDone(o)
    \/ LoopEnd
    \/ \E id \in DeviceIds : GetStart(id)
    \/ \E o \in FetchOutcomes : GetDone(o)

Spec == Init /\ [][Next]_vars

(***************************************************************************)
(* The field extraction on its own: a detail page is drawn row by row from *)
(* the pools below and the parse and the fallback chains are applied.      *)
(***************************************************************************)
ThPool == {"Hardware", "Memory", "Battery"}

CellPool ==
    { Cell(l, v) : l \in {S_RAM, S_ram, S_RAM_type, S_Capacity}, v \in {"8 GB", "4 GB"} }
      \cup { Cell(S_RAM, ""), Cell(<<" ">>, "8 GB"),
             [found |-> FALSE, label |-> S_RAM, value |-> "8 GB"] }

RowPool ==
    { Row(None, <<Cell(S_RAM, "8 GB")>>) }
      \cup { Row(th, <<>>) : th \in ThPool }
      \cup { Row(th, <<c>>) : th \in ThPool, c \in CellPool }

RECURSIVE SeqsUpTo(_, _)
SeqsUpTo(S, n) ==
    IF n = 0 THEN {<<>>}
    ELSE LET shorter == SeqsUpTo(S, n - 1)
         IN  shorter \cup {Append(s, x) : s \in shorter, x \in S}

\* the page is fetched and parsed, the key specifications are extracted
\* (gsmarena.py 204-342)
Extract ==
    /\ npc = "input"
    /\ npc' = "done"
    /\ result' = ExtractKeySpecs(ParseSpecs(page))
    /\ UNCHANGED page
    /\ UNCHANGED <<searchVars, gateVars>>

NormInit ==
    /\ npc = "input"
    /\ page \in SeqsUpTo(RowPool, MaxRows)
    /\ result = EmptyDict
    /\ SearchIdle
    /\ GateIdle /\ now = 0

NormNext == Extract

SpecNorm == NormInit /\ [][NormNext]_vars

(***************************************************************************)
(* _make_request (gsmarena.py 43-108) and the request of                   *)
(* get_device_details (gsmarena.py 383-389), called one after the other by *)
(* a single caller, with the clock.  Times are whole seconds.  A sleep of  *)
(* d seconds ends d seconds later, or later than that by a lag; an HTTP    *)
(* attempt is answered after 0..MaxLatency seconds; the caller starts its  *)
(* next call at once or lets time pass first.                              *)
(***************************************************************************)
\* self.min_request_interval (gsmarena.py 41)
min_request_interval == 5

\* max_retries (gsmarena.py 68)
max_retries == 3

\* additional_delay = 1 + random.random() * 2: a value of [1, 3)
Jitters == {1, 2}

\* by how much a sleep may overrun its duration
SleepLags == {0, 1}

\* the time the caller lets pass between two calls
Gaps == {0, 1, min_request_interval}

MaxLatency == 1
MaxCalls == 2

\* the answers to one HTTP attempt: 200, 429, another error status, and a
\* network error or timeout (0)
Statuses == {200, 429, 503, 0}

\* 2 ** n
RECURSIVE Pow2(_)
Pow2(n) == IF n = 0 THEN 1 ELSE 2 * Pow2(n - 1)

\* The pacing without the wait for min_request_interval.
PacingWait_None(t, last) == 0

\* wait_time of gsmarena.py 47-54: what is left of min_request_interval
\* since the last request, 0 when nothing is left
PacingWait(t, last) ==
    IF t - last < min_request_interval THEN min_request_interval - (t - last) ELSE 0

\* The backoff that does not grow with the retries.
BackoffWait_Flat(retries) == min_request_interval * 2

\* wait_time of gsmarena.py 97
BackoffWait(retries) == min_request_interval * Pow2(retries)

\* Every failed attempt taken for a throttling response.
IsThrottled_AnyFailure(status) == status # 200

\* except httpx.HTTPStatusError with status_code == 429 (gsmarena.py 91-93);
\* a network error or a timeout is no HTTPStatusError
IsThrottled(status) == status = 429

\* The exhausted retries with the raise left out: the while loop ends and
\* the function returns None.
OnExhausted_FallsThrough == "returned None"

\* how the call ends when 429 was received max_retries times: the raise of
\* gsmarena.py 100-102
OnExhausted == "raised"

\* The retry test that lets one more attempt through.
MayRetry_OneMore(retries) == retries <= max_retries

\* if retry_count < max_retries (gsmarena.py 72, 95)
MayRetry(retries) == retries < max_retries

\* _make_request is called: the clock is read and the first sleep, if any,
\* starts (gsmarena.py 46-54).
MR_Call(gap) ==
    /\ gpc = "idle"
    /\ calls' = calls + 1
    /\ now' = now + gap
    /\ wait_time' = PacingWait(now', last_request_time)
    /\ gpc' = IF wait_time' > 0 THEN "wait" ELSE "jitter"
    /\ retry_count' = 0
    /\ attempts' = 0
    /\ backoffs' = <<>>
    /\ ended' = "none"
    /\ UNCHANGED <<last_request_time, prev_request_time, issues, gid, getSends, getLog,
                   last_send, raceVars>>
    /\ UNCHANGED <<normVars, searchVars>>

\* The single caller of SpecGate makes at most MaxCalls calls.
MR_Start(gap) == calls < MaxCalls /\ MR_Call(gap)

\* asyncio.sleep(wait_time) is over (gsmarena.py 54).
MR_Waited(over) ==
    /\ gpc = "wait"
    /\ now' = now + wait_time + over
    /\ gpc' = "jitter"
    /\ wait_time' = 0
    /\ UNCHANGED <<last_request_time, prev_request_time, issues, retry_count, ended,
                   calls, gid, getSends, getLog, attempts, backoffs, last_send, raceVars>>
    /\ UNCHANGED <<normVars, searchVars>>

\* asyncio.sleep(additional_delay) is over, the issuance time is recorded
\* and the first attempt is sent (gsmarena.py 57-81).
MR_Jittered(additional_delay, over) ==
    /\ gpc = "jitter"
    /\ now' = now + additional_delay + over
    /\ prev_request_time' = last_request_time
    /\ last_request_time' = now'
    /\ issues' = issues + 1
    /\ attempts' = attempts + 1
    /\ last_send' = now'
    /\ gpc' = "attempt"
    /\ UNCHANGED <<wait_time, retry_count, ended, calls, gid, getSends, getLog, backoffs,
                   raceVars>>
    /\ UNCHANGED <<normVars, searchVars>>

\* The attempt is answered (gsmarena.py 82-104): 200 returns the response,
\* 429 is retried after a backoff until max_retries is reached, anything
\* else is raised.
MR_Response(status, latency) ==
    /\ gpc = "attempt"
    /\ now' = now + latency
    /\ IF status = 200
       THEN /\ gpc' = "idle" /\ ended' = "returned"
            /\ UNCHANGED <<retry_count, wait_time, backoffs>>
       ELSE IF IsThrottled(status)
       THEN /\ retry_count' = retry_count + 1
            /\ IF MayRetry(retry_count')
               THEN /\ wait_time' = BackoffWait(retry_count')
                    /\ backoffs' = Append(backoffs, wait_time')
                    /\ gpc' = "backoff"
                    /\ UNCHANGED ended
               ELSE gpc' = "idle" /\ ended' = OnExhausted /\ UNCHANGED <<wait_time, backoffs>>
       ELSE /\ gpc' = "idle" /\ ended' = "raised"
            /\ UNCHANGED <<retry_count, wait_time, backoffs>>
    /\ UNCHANGED <<last_request_time, prev_request_time, issues, calls, gid, getSends, getLog,
                   attempts, last_send, raceVars>>
    /\ UNCHANGED <<normVars, searchVars>>

\* The backoff sleep is over and the next attempt is sent (gsmarena.py 99, 72-81).
MR_Backoff(over) ==
    /\ gpc = "backoff"
    /\ now' = now + wait_time + over
    /\ wait_time' = 0
    /\ attempts' = attempts + 1
    /\ last_send' = now'
    /\ gpc' = "attempt"
    /\ UNCHANGED <<last_request_time, prev_request_time, issues, retry_count, ended,
                   calls, gid, getSends, getLog, backoffs, raceVars>>
    /\ UNCHANGED <<normVars, searchVars>>

\* get_device_details is called and sends its request through a client of
\* its own (gsmarena.py 379-388).
G_Start(id, gap) ==
    /\ gpc = "idle" /\ calls < MaxCalls
    /\ calls' = calls + 1
    /\ now' = now + gap
    /\ gid' = id
    /\ getSends' = [getSends EXCEPT ![id] = @ + 1]
    /\ last_send' = now'
    /\ gpc' = "gdd"
    /\ UNCHANGED <<last_request_time, prev_request_time, issues, wait_time, retry_count,
                   ended, getLog, attempts, backoffs, raceVars>>
    /\ UNCHANGED <<normVars, searchVars>>

\* Its request is answered and the call returns (gsmarena.py 388-436).
G_Done(o, latency) ==
    /\ gpc = "gdd"
    /\ now' = now + latency
    /\ getLog' = Append(getLog, [id |-> gid, dict |-> get_device_details(gid, o)])
    /\ gpc' = "idle"
    /\ UNCHANGED <<last_request_time, prev_request_time, issues, wait_time, retry_count,
                   ended, calls, gid, getSends, attempts, backoffs, last_send, raceVars>>
    /\ UNCHANGED <<normVars, searchVars>>

\* time.time() when the scraper is built: the clock may stand near 0 or
\* later than min_request_interval.
GateInit ==
    /\ GateIdle
    /\ now \in {0, min_request_interval}
    /\ SearchIdle /\ NormIdle

GateNext ==
    \/ \E gap \in Gaps : MR_Start(gap)
    \/ \E over \in SleepLags : MR_Waited(over)
    \/ \E j \in Jitters, over \in SleepLags : MR_Jittered(j, over)
    \/ \E s \in Statuses, l \in 0..MaxLatency : MR_Response(s, l)
    \/ \E over \in SleepLags : MR_Backoff(over)
    \/ \E id \in DeviceIds, gap \in Gaps : G_Start(id, gap)
    \/ \E o \in FetchOutcomes, l \in 0..MaxLatency : G_Done(o, l)

SpecGate == GateInit /\ [][GateNext]_vars

(***************************************************************************)
(* _make_request (gsmarena.py 43-108) run by several coroutines on the one *)
(* scraper, as asyncio interleaves them: a coroutine runs alone from one   *)
(* await to the next, and the clock advances while coroutines sleep or     *)
(* wait for a response.  A sleep ends at its time or up to a lag later, an *)
(* attempt is answered within MaxLatency seconds.  Each task calls         *)
(* _make_request once.                                                     *)
(***************************************************************************)
\* the tasks other than t are all outside _make_request
OthersIdle(t) == \A u \in Tasks \ {t} : tpc[u] \in {"idle", "done"}

\* A task calls _make_request: it reads the clock and last_request_time and
\* starts its first sleep (gsmarena.py 46-58).
T_Start(t, gap, additional_delay) ==
    /\ tpc[t] = "idle"
    /\ gap = 0 \/ OthersIdle(t)
    /\ now' = now + gap
    /\ LET w == PacingWait(now', last_request_time)
       IN  IF w > 0
           THEN /\ tpc' = [tpc EXCEPT ![t] = "wait"]
                /\ wake' = [wake EXCEPT ![t] = now' + w]
           ELSE /\ tpc' = [tpc EXCEPT ![t] = "jitter"]
                /\ wake' = [wake EXCEPT ![t] = now' + additional_delay]
    /\ tretry' = [tretry EXCEPT ![t] = 0]
    /\ UNCHANGED <<calls, last_request_time, issued>>
    /\ UNCHANGED <<gpc, prev_request_time, issues, wait_time, retry_count, ended, gid,
                   getSends, getLog, attempts, backoffs, last_send>>
    /\ UNCHANGED <<normVars, searchVars>>

\* asyncio.sleep(wait_time) is over, the jitter sleep starts (gsmarena.py 54-58).
T_Waited(t, additional_delay) ==
    /\ tpc[t] = "wait" /\ now >= wake[t]
    /\ tpc' = [tpc EXCEPT ![t] = "jitter"]
    /\ wake' = [wake EXCEPT ![t] = now + additional_delay]
    /\ UNCHANGED <<now, calls, tretry, last_request_time, issued>>
    /\ UNCHANGED <<gpc, prev_request_time, issues, wait_time, retry_count, ended, gid,
                   getSends, getLog, attempts, backoffs, last_send>>
    /\ UNCHANGED <<normVars, searchVars>>

\* The jitter sleep is over: the issuance time is recorded and the first
\* attempt is sent (gsmarena.py 58-81).
T_Jittered(t) ==
    /\ tpc[t] = "jitter" /\ now >= wake[t]
    /\ last_request_time' = now
    /\ issued' = Append(issued, now)
    /\ tpc' = [tpc EXCEPT ![t] = "attempt"]
    /\ wake' = [wake EXCEPT ![t] = now + MaxLatency]
    /\ UNCHANGED <<now, calls, tretry>>
    /\ UNCHANGED <<gpc, prev_request_time, issues, wait_time, retry_count, ended, gid,
                   getSends, getLog, attempts, backoffs, last_send>>
    /\ UNCHANGED <<normVars, searchVars>>

\* The attempt is answered (gsmarena.py 82-108).
T_Response(t, status) ==
    /\ tpc[t] = "attempt"
    /\ IF status # 200 /\ IsThrottled(status)
       THEN /\ tretry' = [tretry EXCEPT ![t] = @ + 1]
            /\ IF MayRetry(tretry'[t])
               THEN /\ tpc' = [tpc EXCEPT ![t] = "backoff"]
                    /\ wake' = [wake EXCEPT ![t] = now + BackoffWait(tretry'[t])]
               ELSE /\ tpc' = [tpc EXCEPT ![t] = "done"]
                    /\ UNCHANGED wake
       ELSE /\ tpc' = [tpc EXCEPT ![t] = "done"]
            /\ UNCHANGED <<tretry, wake>>
    /\ UNCHANGED <<now, calls, last_request_time, issued>>
    /\ UNCHANGED <<gpc, prev_request_time, issues, wait_time, retry_count, ended, gid,
                   getSends, getLog, attempts, backoffs, last_send>>
    /\ UNCHANGED <<normVars, searchVars>>

\* The backoff sleep is over and the next attempt is sent (gsmarena.py 99, 72-81).
T_Backoff(t) ==
    /\ tpc[t] = "backoff" /\ now >= wake[t]
    /\ tpc' = [tpc EXCEPT ![t] = "attempt"]
    /\ wake' = [wake EXCEPT ![t] = now + MaxLatency]
    /\ UNCHANGED <<now, calls, tretry, last_request_time, issued>>
    /\ UNCHANGED <<gpc, prev_request_time, issues, wait_time, retry_count, ended, gid,
                   getSends, getLog, attempts, backoffs, last_send>>
    /\ UNCHANGED <<normVars, searchVars>>

\* A second passes while some task sleeps or waits for its response: no
\* sleep overruns by more than the lag, no response comes later than
\* MaxLatency.
Tick ==
    /\ \E t \in Tasks : tpc[t] \notin {"idle", "done"}
    /\ \A t \in Tasks :
           /\ tpc[t] \in {"wait", "jitter", "backoff"} =>
                  \E over \in SleepLags : now < wake[t] + over
           /\ tpc[t] = "attempt" => now < wake[t]
    /\ now' = now + 1
    /\ UNCHANGED <<calls, tpc, wake, tretry, last_request_time, issued>>
    /\ UNCHANGED <<gpc, prev_request_time, issues, wait_time, retry_count, ended, gid,
                   getSends, getLog, attempts, backoffs, last_send>>
    /\ UNCHANGED <<normVars, searchVars>>

RaceInit == GateInit

RaceNext ==
    \/ \E t \in Tasks, gap \in Gaps, j \in Jitters : T_Start(t, gap, j)
    \/ \E t \in Tasks, j \in Jitters : T_Waited(t, j)
    \/ \E t \in Tasks : T_Jittered(t)
    \/ \E t \in Tasks, s \in Statuses : T_Response(t, s)
    \/ \E t \in Tasks : T_Backoff(t)
    \/ Tick

SpecRace == RaceInit /\ [][RaceNext]_vars

(***************************************************************************)
(* One search_devices call (gsmarena.py 110-198) with each of its requests *)
(* run through _make_request (gsmarena.py 43-108): the results-page        *)
(* request of line 129 and the request that _get_device_details makes at   *)
(* line 204 for every usable entry.  A step of search_devices that follows *)
(* a request waits for that _make_request call to end.  The event loop     *)
(* runs a coroutine that is ready, every sleep ends and every attempt is   *)
(* answered or times out (timeout=30.0, gsmarena.py 38), so a step that    *)
(* stays possible is taken.                                                *)
(***************************************************************************)
\* the call is at a request for which _make_request has not been called yet
RequestPending ==
    pc \in {"search_request", "detail"} /\ gpc = "idle" /\ calls < 1 + fetches

\* the _make_request call of the request the call is at has ended
RequestEnded ==
    pc \in {"search_request", "detail"} /\ gpc = "idle" /\ calls = 1 + fetches

\* search_devices is called, once
L_Search(q) == returned = NoReturn /\ SearchStart(q)

\* await self._make_request(...) (gsmarena.py 129, 204)
L_Request(gap) == RequestPending /\ MR_Call(gap)

\* the results-page request has failed (gsmarena.py 129-133, 196-198)
L_SearchFailed(kind) ==
    /\ RequestEnded
    /\ kind = "status" <=> ended = "returned"
    /\ SearchFailed(kind)

\* the results page has arrived (gsmarena.py 129-147)
L_SearchPage(hasContainer) ==
    /\ RequestEnded /\ ended = "returned"
    /\ SearchPage(hasContainer)

\* _get_device_details has returned (gsmarena.py 174, 204-346): {} when its
\* request raised, {} or the key specifications when it was answered
L_DetailDone(outcome) ==
    /\ RequestEnded
    /\ outcome.ok => ended = "returned"
    /\ DetailDone(outcome)

\* The pages of the live runs: up to MaxLiveEntries entries, each one without
\* a link or usable; a detail request that is answered brings the full page.
MaxLiveEntries == 3

LiveEntries ==
    { Entry(FALSE, None, <<>>), Entry(TRUE, HrefA, <<"Apple", "iPhone", "15">>) }

LiveOutcomes == { [ok |-> FALSE, page |-> PageBare], [ok |-> TRUE, page |-> PageFull] }

LiveQueries == { <<>>, <<"i">> }

\* one pass of the for loop, while the page has entries left
L_LoopEntry(e) == i < MaxLiveEntries /\ LoopEntry(e)

LiveInit == Init

LiveNext ==
    \/ \E q \in LiveQueries : L_Search(q)
    \/ L_Request(0)
    \/ MR_Waited(0)
    \/ \E j \in Jitters : MR_Jittered(j, 0)
    \/ \E s \in Statuses : MR_Response(s, 0)
    \/ MR_Backoff(0)
    \/ \E kind \in SearchFailures : L_SearchFailed(kind)
    \/ \E c \in BOOLEAN : L_SearchPage(c)
    \/ \E e \in LiveEntries : L_LoopEntry(e)
    \/ \E o \in LiveOutcomes : L_DetailDone(o)
    \/ LoopEnd

SpecLive == LiveInit /\ [][LiveNext]_vars /\ WF_vars(LiveNext)

(***************************************************************************)
(* Properties of termination (SpecLive)                                    *)
(***************************************************************************)

\* C23: when every attempt is answered and the page is finite, a call of
\* _make_request that has ended has returned a response or raised, every call
\* of _make_request that has begun ends, and every call of search_devices
\* that has begun returns a list.
C23_Termination ==
    /\ [](gpc = "idle" /\ calls > 0 => ended \in {"returned", "raised"})
    /\ (gpc # "idle") ~> (gpc = "idle")
    /\ (pc # "idle") ~> (pc = "idle" /\ returned.op = "search_devices")

\* search_devices has returned a list with a device in it although its last
\* request used up its retries and raised.
C23_Witness ==
    /\ pc = "idle"
    /\ returned.op = "search_devices"
    /\ Len(returned.list) >= 1
    /\ calls >= 3
    /\ gpc = "idle"
    /\ ended = "raised"
    /\ retry_count = max_retries

(***************************************************************************)
(* Properties of search_devices and get_device_details (Spec)              *)
(***************************************************************************)
SearchReturned == pc = "idle" /\ returned.op = "search_devices"
GetReturned == pc = "idle" /\ returned.op = "get_device_details"

\* C1: the list returned by search_devices for a non-empty query has at most
\* 5 elements, however many entries the results page holds and whichever
\* detail fetches fail.
C1_AtMostFive ==
    (SearchReturned /\ ~IsBlankQuery(query)) => Len(returned.list) <= 5

\* A search that returned 5 records after more than 5 detail fetches.
C1_Witness ==
    /\ SearchReturned /\ ~IsBlankQuery(query)
    /\ Len(returned.list) = 5
    /\ fetches > 5

\* C2: no two records of the list returned by search_devices for a non-empty
\* query carry the same source_url.
C2_UniqueSourceUrls ==
    (SearchReturned /\ ~IsBlankQuery(query)) =>
        \A a, b \in 1..Len(returned.list) :
            a # b => returned.list[a].source_url # returned.list[b].source_url

\* specifications holds the twelve canonical keys, each a non-empty string
\* or "N/A"
IsCanonical(s) ==
    \A k \in CanonicalKeys : k \in DOMAIN s /\ s[k] # None /\ s[k] # ""

\* C3: in every record returned by search_devices and by get_device_details
\* the specifications map holds all twelve canonical keys, each one a
\* non-empty string or "N/A".
C3_CanonicalSpecifications ==
    /\ SearchReturned =>
           \A k \in 1..Len(returned.list) : IsCanonical(returned.list[k].specifications)
    /\ (GetReturned /\ DOMAIN returned.dict # {}) =>
           IsCanonical(returned.dict.specifications)

\* C4: every element of the list returned by search_devices has the keys
\* "id" and "name".
C4_IdAndName ==
    SearchReturned =>
        \A k \in 1..Len(returned.list) : {"id", "name"} \subseteq DOMAIN returned.list[k]

\* C5: the "id" of every record returned by search_devices can be handed to
\* get_device_details, whose answer for it then has the keys "id", "name"
\* and "specifications".
C5_IdFeedsDetails ==
    SearchReturned =>
        \A k \in 1..Len(returned.list) :
            LET d == returned.list[k]
            IN  /\ "id" \in DOMAIN d
                /\ \A p \in DetailPages :
                       {"id", "name", "specifications"} \subseteq
                           DOMAIN get_device_details(d["id"], [ok |-> TRUE, page |-> p])

\* C8: a detail page without any "Battery" category, fetched without error,
\* yields a record whose battery is "N/A", and that record is appended to the
\* results of search_devices, which its return statements hand back.
C8_NoBatteryStillListed ==
    [][ /\ \A o \in FetchOutcomes :
               (DetailDone(o) /\ o.ok /\ "Battery" \notin DOMAIN ParseSpecs(o.page.rows)) =>
                   /\ results' = Append(results, results'[Len(results')])
                   /\ results'[Len(results')].source_url = cur.url
                   /\ results'[Len(results')].specifications["battery"] = NA
        /\ pc # "idle" =>
               /\ Len(results') >= Len(results)
               /\ SubSeq(results', 1, Len(results)) = results
        /\ (pc' = "idle" /\ returned'.op = "search_devices") =>
               returned'.list = results'
      ]_vars

\* A search has returned a record whose battery is "N/A": of the pages a
\* detail request may bring, only those without a Battery category give it.
C8_Witness ==
    /\ SearchReturned
    /\ \E k \in 1..Len(returned.list) :
           returned.list[k].specifications["battery"] = NA

\* C11: a detail fetch that fails (its request raises, or the parse does)
\* never aborts search_devices: the failed device is left out of results, the
\* loop goes on with the next entry of the page, and what the call returns
\* in the end is results, which holds the records of the fetches that
\* succeeded.
C11_FailedFetchSkipped ==
    [][ /\ \A o \in FetchOutcomes :
               (DetailDone(o) /\ ~o.ok) =>
                   /\ results' = results
                   /\ pc' = "search_loop"
                   /\ returned' = NoReturn
        /\ \A o \in FetchOutcomes :
               (DetailDone(o) /\ o.ok) =>
                   /\ Len(results') = Len(results) + 1
                   /\ results'[Len(results')].source_url = cur.url
        /\ (pc \in {"search_loop", "detail"} /\ pc' = "idle") =>
               /\ returned' = ReturnList(results')
               /\ SubSeq(results', 1, Len(results)) = results
      ]_vars

\* A search returned five records although a detail fetch had failed: the
\* call returns at its fifth success, so entries after the failed one were
\* processed.
C11_Witness ==
    /\ SearchReturned
    /\ "Error getting device details" \in logged
    /\ Len(returned.list) = ResultLimit
    /\ \A k \in 1..Len(returned.list) : DOMAIN returned.list[k].specifications # {}

\* C12: no exception escapes search_devices: every call ends by returning a
\* list, and when the results-page request fails (_make_request raises, or
\* the status is not 200) that list is empty.
C12_NoExceptionEscapes ==
    [][ /\ \A kind \in SearchFailures :
               SearchFailed(kind) => (pc' = "idle" /\ returned' = ReturnList(<<>>))
        /\ (pc # "gdd_request" /\ pc' = "idle") => returned'.op = "search_devices"
      ]_vars

\* _make_request raised for the results page and the call returned [].
C12_Witness ==
    /\ SearchReturned
    /\ "Error during search" \in logged
    /\ returned.list = <<>>

\* C17: at every moment of a search_devices call at most 2 detail fetches
\* are in flight, and none is once the call has returned.
C17_AtMostTwoInFlight ==
    /\ inflight <= 2
    /\ pc = "idle" => inflight = 0

\* A detail fetch is in flight after an earlier one of the same call
\* completed.
C17_Witness ==
    /\ pc = "detail"
    /\ inflight = 1
    /\ fetches >= 2

\* C18: one search_devices call starts detail fetches for at most 5 stubs,
\* however many entries the results page holds and however many of the
\* fetches fail.
C18_AtMostFiveFetches == fetches <= 5

\* brand by the rule of C19: the first word of name, "Unknown" for a name
\* of one word
BrandRule(name) == IF Len(name) > 1 THEN name[1] ELSE "Unknown"

\* C19: every record that search_devices builds from a results-page entry
\* has a non-empty name, and its brand is the first word of name, or
\* "Unknown" when name is a single word; get_device_details derives brand
\* from name by the same rule.
C19_BrandFromName ==
    /\ SearchReturned =>
           \A k \in 1..Len(returned.list) :
               /\ returned.list[k].name # <<>>
               /\ returned.list[k].brand = BrandRule(returned.list[k].name)
    /\ (GetReturned /\ DOMAIN returned.dict # {}) =>
           returned.dict.brand = BrandRule(returned.dict.name)

\* C10: search_devices with an empty or blank query requests the popular
\* devices listing: it sends a request, and none with an empty search term.
C10_BlankQueryRoutesToPopular ==
    (SearchReturned /\ Strip(query) = <<>>) =>
        /\ sent # {}
        /\ \A r \in sent : ~(r.url = SEARCH_URL /\ r.sName = <<>>)

(***************************************************************************)
(* Properties of the field extraction (SpecNorm)                           *)
(***************************************************************************)
\* the raw spec map of the drawn page
RawSpecs == ParseSpecs(page)

\* some label of category c contains the field, compared case-insensitively
\* (an exact or a case-insensitive match is such a label too)
AnyMatch(specs, c, field) ==
    /\ c \in DOMAIN specs
    /\ \E l \in Labels(specs[c]) : Contains(Lower(l), Lower(field))

ExactMatch(specs, c, field) == c \in DOMAIN specs /\ field \in Labels(specs[c])

CaseMatch(specs, c, field) ==
    c \in DOMAIN specs /\ \E l \in Labels(specs[c]) : Lower(l) = Lower(field)

\* the aliases of key whose category is c
AliasesIn(key, c) == {a \in 1..Len(AliasList[key]) : AliasList[key][a][1] = c}

\* category c holds, for key, a substring match and nothing better
OnlySubstring(specs, key, c) ==
    /\ \E a \in AliasesIn(key, c) : AnyMatch(specs, c, AliasList[key][a][2])
    /\ \A a \in AliasesIn(key, c) : ~CaseMatch(specs, c, AliasList[key][a][2])

\* the case of C7: alias e of key matches exactly in its category, and some
\* other category of key's aliases holds only a substring match
C7_Case(specs, key, e) ==
    /\ ExactMatch(specs, AliasList[key][e][1], AliasList[key][e][2])
    /\ \A a \in 1..(e - 1) :
           ~ExactMatch(specs, AliasList[key][a][1], AliasList[key][a][2])
    /\ \E s \in 1..Len(AliasList[key]) :
           /\ AliasList[key][s][1] # AliasList[key][e][1]
           /\ OnlySubstring(specs, key, AliasList[key][s][1])

ExactValue(specs, key, e) ==
    LET d == specs[AliasList[key][e][1]]
    IN  d[DictGet(d, AliasList[key][e][2])][2]

C21_AliasThenMatchOrder ==
    npc = "done" =>
        \A key \in CanonicalKeys :
            LET al == AliasList[key]
                resolving == {a \in 1..Len(al) : AnyMatch(RawSpecs, al[a][1], al[a][2])}
            IN  IF resolving = {}
                THEN result[key] = NA
                ELSE LET f == CHOOSE a \in resolving : \A b \in resolving : a <= b
                         d == RawSpecs[al[f][1]]
                         field == al[f][2]
                     IN  IF ExactMatch(RawSpecs, al[f][1], field)
                         THEN \E k \in 1..Len(d) :
                                  d[k][1] = field /\ result[key] = d[k][2]
                         ELSE IF CaseMatch(RawSpecs, al[f][1], field)
                         THEN \E k \in 1..Len(d) :
                                  /\ Lower(d[k][1]) = Lower(field)
                                  /\ result[key] = d[k][2]
                         ELSE \E k \in 1..Len(d) :
                                  /\ Contains(Lower(d[k][1]), Lower(field))
                                  /\ result[key] = d[k][2]

\* Under "Hardware" the label "RAM type" comes first and "ram" second, with
\* different values: ram takes the value of "ram", the match up to case,
\* not that of the earlier label that only contains the alias.
C21_Witness ==
    /\ npc = "done"
    /\ "Hardware" \in DOMAIN RawSpecs
    /\ Len(RawSpecs["Hardware"]) = 2
    /\ RawSpecs["Hardware"][1][1] = S_RAM_type
    /\ RawSpecs["Hardware"][2][1] = S_ram
    /\ RawSpecs["Hardware"][1][2] # RawSpecs["Hardware"][2][2]
    /\ result["ram"] = RawSpecs["Hardware"][2][2]

(***************************************************************************)
(* Properties of the request pacing (SpecGate)                             *)
(***************************************************************************)
\* the cache time-to-live, 24 hours, in seconds
CacheTTL == 86400

\* C6: of two get_device_details calls for the same id made within the
\* cache TTL (here: while the clock, which started at 0 or shortly after,
\* has not passed the TTL), the second is served from the cache: only one
\* request was sent for that id, and both calls returned the same dict.
C6_SecondCallFromCache ==
    \A a, b \in 1..Len(getLog) :
        (a < b /\ getLog[a].id = getLog[b].id /\ now <= CacheTTL) =>
            /\ getSends[getLog[a].id] <= 1
            /\ getLog[a].dict = getLog[b].dict

\* C9: of two _make_request calls made one after the other, the second
\* records an issuance time at least min_request_interval after the one the
\* first recorded.
C9_SequentialSpacing ==
    issues >= 2 => last_request_time - prev_request_time >= min_request_interval

\* The second call found less than min_request_interval elapsed, slept for
\* the rest and then recorded its issuance time.
C9_Witness ==
    /\ issues = 2
    /\ gpc = "attempt"
    /\ last_request_time - prev_request_time <= min_request_interval + 1

\* C13: one _make_request call sends at most 3 HTTP attempts, and when the
\* third attempt is answered with 429 like the two before it, the call
\* retries no more and raises.
C13_AtMostThreeAttempts ==
    [][ /\ attempts' <= 3
        /\ \A l \in 0..MaxLatency :
               (MR_Response(429, l) /\ attempts = 3) =>
                   /\ gpc' = "idle"
                   /\ ended' = "raised"
                   /\ attempts' = attempts
      ]_vars

\* Three attempts were sent, each was answered with 429, the call raised.
C13_Witness ==
    /\ gpc = "idle" /\ ended = "raised"
    /\ attempts = 3
    /\ retry_count = 3

\* C14: an attempt that fails otherwise than with a 429 (another error
\* status, a network error, a timeout) makes _make_request raise at once: no
\* further attempt is sent and no backoff is slept, on the first attempt as
\* on a retry after earlier 429 responses.
C14_OtherFailuresPropagate ==
    [][ \A s \in Statuses \ {200, 429}, l \in 0..MaxLatency :
            MR_Response(s, l) =>
                /\ gpc' = "idle"
                /\ ended' = "raised"
                /\ attempts' = attempts
                /\ retry_count' = retry_count
                /\ backoffs' = backoffs /\ wait_time' = wait_time
      ]_vars

\* The call raised on a retry: it had received 429 once or twice, fewer
\* times than exhaust the retries, and sent one attempt more than that.
C14_Witness ==
    /\ gpc = "idle" /\ ended = "raised"
    /\ retry_count \in {1, 2}
    /\ attempts = retry_count + 1
    /\ Len(backoffs) = retry_count

\* C15: the backoff slept after the k-th 429 response of a call is
\* min_request_interval * 2^k seconds, so each backoff is twice the one
\* before it.
C15_BackoffDoubles ==
    /\ \A k \in 1..Len(backoffs) : backoffs[k] = min_request_interval * 2 ^ k
    /\ \A k \in 2..Len(backoffs) : backoffs[k] = 2 * backoffs[k - 1]
    /\ gpc = "backoff" =>
           /\ Len(backoffs) = retry_count
           /\ wait_time = backoffs[retry_count]

\* The second backoff of a call is under way.
C15_Witness ==
    /\ gpc = "backoff"
    /\ retry_count = 2
    /\ backoffs = <<10, 20>>
    /\ wait_time = 20

\* C20: get_device_details sends its request through the rate gate:
\* the request goes out at least min_request_interval after the outbound
\* request before it and its time is recorded in last_request_time, and
\* the first attempt of a _make_request that follows keeps the same
\* distance from it.
C20_GetDetailsPaced ==
    [][ /\ \A id \in DeviceIds, gap \in Gaps :
               G_Start(id, gap) =>
                   /\ last_request_time' = now'
                   /\ last_send # -1 => now' - last_send >= min_request_interval
        /\ \A j \in Jitters, over \in SleepLags :
               (MR_Jittered(j, over) /\ last_send # -1) =>
                   now' - last_send >= min_request_interval
      ]_vars

\* C22: with _make_request called one call after the other and no other
\* request sent in between, every HTTP attempt, a retry after a 429 like a
\* first attempt, goes out at least min_request_interval after the attempt
\* before it, also when that one was the last retry of the previous call.
C22_SpacingAcrossRetries ==
    [][ ( /\ \A d \in DeviceIds : getSends[d] = 0
          /\ last_send # -1
          /\ attempts' = attempts + 1 ) =>
            now' - last_send >= min_request_interval
      ]_vars

(***************************************************************************)
(* Properties of concurrent _make_request calls (SpecRace)                 *)
(***************************************************************************)
\* C16: however the _make_request calls of several coroutines interleave
\* on one scraper, any two issuance times they record lie at least
\* min_request_interval apart.
C16_ConcurrentSpacing ==
    \A a, b \in 1..Len(issued) :
        a < b => issued[b] - issued[a] >= min_request_interval
====
